---------------------------- MODULE Spec2Model ----------------------------
(***************************************************************************)
(* MarketTick: the automated collection subsystem.                         *)
(*                                                                         *)
(*   - getMarketHours   the trading calendar of AutoDataCollector          *)
(*   - storeDataLocally / clearStoredData / getStoredDataCount             *)
(*                      the per-symbol bounded store kept in localStorage  *)
(*   - AutoDataCollector                                                   *)
(*                      the React component that owns the cadence timer,   *)
(*                      the market-hours timer, the auto-start effect and  *)
(*                      the collection statistics                          *)
(*                                                                         *)
(* Time is counted in whole minutes.  Minute 0 is a Sunday, 00:00 UTC, so  *)
(* that (m \div 1440) % 7 is the value of Date.getDay() for a date whose   *)
(* local fields show minute m.                                             *)
(***************************************************************************)
EXTENDS Integers, Sequences, FiniteSets

\* ------------------------------------------------------------------ bounds

\* Ledger capacity. The code keeps the last 10000 entries per symbol
\* (dataExport.ts line 109); the model scales the number down.
Capacity == 1

\* Collection attempts launched in one behaviour.
MaxAttempts == 2

\* Steps of the wall clock in one behaviour.
MaxClockSteps == 1

\* Records per file of a chunked export. The code puts 1000 in a chunk
\* (dataExport.ts line 266); the model scales the number down.
chunkSize == 2

\* The longest ledger an export is tried on.
MaxRecords == 5

\* Statistics updates in one behaviour of the statistics on their own.
MaxRuns == 7

\* ------------------------------------------------------------- program data

MinutesPerDay == 24 * 60
MinutesPerWeek == 7 * MinutesPerDay

\* The 8 hours getMarketHours adds to "convert to HKT", in minutes.
HKOffset == 8 * 60

\* The symbols a caller can select; "" is "no symbol selected".
Symbols == {"700.HK", "BTCUSDT"}
NoSymbol == ""

\* The entries of the symbol list a caller can select (SymbolSelector hands
\* the symbol's code and its market to App's handleSymbolChange together),
\* and App's initial market. The markets are those of the server's symbol
\* list ('forex' for its forex and commodity entries, which the component
\* treats alike) and App's initial one.
SymbolList == {<<"700.HK", "hkex">>, <<"BTCUSDT", "crypto">>}
InitialMarket == "stock"
Markets == {"crypto", "hkex", "stock", "forex"}

\* Offsets of the browser's local time zone from UTC, in minutes:
\* UTC, Hong Kong (UTC+8), New York (UTC-5).
TzOffsets == {0, 480, -300}

\* JavaScript truthiness of a string: `!selectedSymbol` is true of "".
TruthyAlways(s) == TRUE
Truthy(s) == s # ""

\* ---------------------------------------------------------- MarketCalendar

\* Date.getDay(), and hour * 60 + minute, of a date whose local fields show
\* minute m.
DayOf(m) == (m \div MinutesPerDay) % 7
TimeInMinutes(m) == m % MinutesPerDay

\* d.setHours(h, mi, 0, 0) on local fields m: same local day, given time.
SetHours(m, hm) == (m \div MinutesPerDay) * MinutesPerDay + hm

morningStart == 9 * 60 + 30
morningEnd == 12 * 60
afternoonStart == 13 * 60
afternoonEnd == 16 * 60

\* A Date that is null.
Null == -1

\* The local fields of `hkTime = new Date(now.getTime() + 8h)` as getDay(),
\* getHours() and getMinutes() read them: those getters read the date in the
\* browser's own time zone, so the fields are those of now + 8h + zone.
HkFields(instant, zone) == instant + HKOffset + zone

\* The instant of a Date whose local fields show m, after the
\* `- (8 * 60 * 60 * 1000)` that converts back.
BackToInstantLost(m, zone) == Null
BackToInstant(m, zone) == m - zone - HKOffset

\* getMarketHours for a market that is not 'crypto'.
stockMarketHours(instant, zone) ==
    LET hk == HkFields(instant, zone)
        day == DayOf(hk)
        t == TimeInMinutes(hk)
    IN
    IF day = 0 \/ day = 6
    THEN [isOpen |-> FALSE,
          nextOpen |-> BackToInstant(
              SetHours(hk + ((1 + (7 - day)) % 7) * MinutesPerDay, morningStart),
              zone),
          nextClose |-> Null,
          sessionType |-> "closed"]
    ELSE IF t >= morningStart /\ t < morningEnd
    THEN [isOpen |-> TRUE, nextOpen |-> Null,
          nextClose |-> BackToInstant(SetHours(hk, morningEnd), zone),
          sessionType |-> "morning"]
    ELSE IF t >= afternoonStart /\ t < afternoonEnd
    THEN [isOpen |-> TRUE, nextOpen |-> Null,
          nextClose |-> BackToInstant(SetHours(hk, afternoonEnd), zone),
          sessionType |-> "afternoon"]
    ELSE IF t < morningStart
    THEN [isOpen |-> FALSE,
          nextOpen |-> BackToInstant(SetHours(hk, morningStart), zone),
          nextClose |-> Null, sessionType |-> "closed"]
    ELSE IF t >= morningEnd /\ t < afternoonStart
    THEN [isOpen |-> FALSE,
          nextOpen |-> BackToInstant(SetHours(hk, afternoonStart), zone),
          nextClose |-> Null, sessionType |-> "closed"]
    ELSE [isOpen |-> FALSE,
          nextOpen |-> BackToInstant(
              SetHours(hk + MinutesPerDay, morningStart), zone),
          nextClose |-> Null, sessionType |-> "closed"]

\* getMarketHours with the 'crypto' test never taken.
getMarketHoursNoCrypto(market, instant, zone) == stockMarketHours(instant, zone)

\* getMarketHours: 'crypto' is open around the clock, any other market
\* follows the stock calendar.
getMarketHours(market, instant, zone) ==
    IF market = "crypto"
    THEN [isOpen |-> TRUE, nextOpen |-> Null, nextClose |-> Null,
          sessionType |-> "morning"]
    ELSE stockMarketHours(instant, zone)

\* useState<MarketHours> initial value.
InitialMarketHours ==
    [isOpen |-> FALSE, nextOpen |-> Null, nextClose |-> Null,
     sessionType |-> "closed"]

\* ------------------------------------------------------ BoundedSymbolStore

\* existingData.push(exportData); if longer than the capacity, splice off
\* the head so that the last `Capacity` entries remain.
PushBoundedNoEvict(ledger, rec) == Append(ledger, rec)
PushBoundedKeepsHead(ledger, rec) ==
    LET pushed == Append(ledger, rec)
    IN  IF Len(pushed) > Capacity THEN SubSeq(pushed, 1, Capacity) ELSE pushed
PushBounded(ledger, rec) ==
    LET pushed == Append(ledger, rec)
    IN  IF Len(pushed) > Capacity
        THEN SubSeq(pushed, Len(pushed) - Capacity + 1, Len(pushed))
        ELSE pushed

\* storeDataLocally: the value of localStorage after the call. `outcome`
\* is what the two localStorage.setItem calls do: "stored" (both succeed),
\* "quotaData" (the first throws, nothing is written) or "quotaHistory" (the
\* ledger is written, then the write of the collection history throws).
storeDataLocallySharedKey(storage, symbol, rec, outcome) ==
    IF outcome = "quotaData"
    THEN storage
    ELSE [s \in DOMAIN storage |-> PushBounded(storage[s], rec)]

storeDataLocally(storage, symbol, rec, outcome) ==
    IF outcome = "quotaData"
    THEN storage
    ELSE [storage EXCEPT ![symbol] = PushBounded(@, rec)]

\* The boolean storeDataLocally returns.
storeDataLocallyResult(outcome) == outcome = "stored"

\* getStoredDataCount
getStoredDataCount(storage, symbol) == Len(storage[symbol])

\* clearStoredData: localStorage.removeItem of the symbol's key; a removed
\* key reads back as '[]'.
clearStoredDataAll(storage, symbol) == [s \in DOMAIN storage |-> <<>>]
clearStoredData(storage, symbol) == [storage EXCEPT ![symbol] = <<>>]

\* ------------------------------------------------------------ ExportPlanner

\* The size above which exportStoredData serialises without indentation:
\* 50 MB, in bytes.
SizeBudget == 50 * 1024 * 1024

\* Sizes `new Blob([JSON.stringify(storedData)]).size` can come to: just
\* under, at and just over 50 MB.
DataSizes == {SizeBudget - 1, SizeBudget, SizeBudget + 1}

\* What serialising the export package and creating its blob can do:
\* succeed, yield a blob of size 0 (exportStoredData then throws 'Failed to
\* create data blob - file would be empty'), or throw an Error whose message
\* includes 'memory' or 'size', or one whose message includes neither.
Faults == {"none", "emptyBlob", "errorMemoryOrSize", "errorOther"}

\* error.message.includes('memory') || error.message.includes('size')
MentionsAnything(fault) == TRUE
MentionsMemoryOrSize(fault) == fault = "errorMemoryOrSize"

\* Before any export.
NoExport ==
    [symbol |-> "", dataSize |-> 0, fault |-> "none", ok |-> FALSE,
     plan |-> "none", files |-> <<>>]

\* exportStoredDataChunked: slices of chunkSize records, one download per
\* slice, each with its number and the number of slices. `failAt` is the
\* number of the slice whose serialisation or download throws (0: none
\* does); the slices before it have been handed to the browser by then,
\* and the function returns false.
exportStoredDataChunkedFixedCount(storage, symbol, failAt) ==
    LET storedData == storage[symbol]
        n == Len(storedData)
        total == (n + chunkSize - 1) \div chunkSize
        upTo(i) == IF i * chunkSize < n THEN i * chunkSize ELSE n
        chunk(i) == SubSeq(storedData, (i - 1) * chunkSize + 1, upTo(i))
        file(i) == [symbol |-> symbol, chunkNumber |-> i,
                    totalChunks |-> total, recordsInChunk |-> chunkSize,
                    totalRecords |-> n, data |-> chunk(i)]
        made == IF failAt = 0 \/ failAt > total THEN total ELSE failAt - 1
    IN  IF n = 0
        THEN [ok |-> FALSE, files |-> <<>>]
        ELSE [ok |-> made = total, files |-> [i \in 1 .. made |-> file(i)]]

exportStoredDataChunked(storage, symbol, failAt) ==
    LET storedData == storage[symbol]
        n == Len(storedData)
        total == (n + chunkSize - 1) \div chunkSize
        upTo(i) == IF i * chunkSize < n THEN i * chunkSize ELSE n
        chunk(i) == SubSeq(storedData, (i - 1) * chunkSize + 1, upTo(i))
        file(i) == [symbol |-> symbol, chunkNumber |-> i,
                    totalChunks |-> total, recordsInChunk |-> Len(chunk(i)),
                    totalRecords |-> n, data |-> chunk(i)]
        made == IF failAt = 0 \/ failAt > total THEN total ELSE failAt - 1
    IN  IF n = 0
        THEN [ok |-> FALSE, files |-> <<>>]
        ELSE [ok |-> made = total, files |-> [i \in 1 .. made |-> file(i)]]

\* exportStoredData: false for an empty ledger; else one file with every
\* record, indented unless the format is 'compressed' or the array is over
\* 50 MB; an error on the way ends in the chunked export when its message
\* includes 'memory' or 'size', and in false otherwise.
exportStoredData(storage, symbol, format, dataSize, fault, failAt) ==
    LET storedData == storage[symbol]
        chunked == exportStoredDataChunked(storage, symbol, failAt)
    IN  IF Len(storedData) = 0
        THEN [ok |-> FALSE, plan |-> "none", files |-> <<>>]
        ELSE IF fault = "none"
        THEN [ok |-> TRUE, plan |-> "single",
              files |-> <<[symbol |-> symbol,
                           totalRecords |-> Len(storedData),
                           pretty |-> ~(format = "compressed"
                                        \/ dataSize > SizeBudget),
                           data |-> storedData]>>]
        ELSE IF MentionsMemoryOrSize(fault)
        THEN [ok |-> chunked.ok, plan |-> "chunked", files |-> chunked.files]
        ELSE [ok |-> FALSE, plan |-> "none", files |-> <<>>]

\* ------------------------------------------------------------ storage health

\* checkStorageHealth's counts: a ledger of more than 9000 records is near
\* its limit, one of more than 7000 is in high use. The code compares with
\* these numbers, not with fractions of the capacity, so they keep their
\* values and the ledgers they are tried on have their real lengths.
NearCapacityCount == 9000
HighUsageCount == 7000

\* The ledger lengths the health check is tried on: no ledger, and lengths
\* at and just over the two counts.
HealthCounts ==
    {0, HighUsageCount, HighUsageCount + 1, NearCapacityCount,
     NearCapacityCount + 1}

\* localStorageSize: the characters under the marketTick_ keys, at and just
\* over the sizes checkStorageHealth compares with (twice the characters
\* against 5 MB and against 8 MB).
StorageChars ==
    {0, 5 * 512 * 1024, 5 * 512 * 1024 + 1, 4 * 1024 * 1024,
     4 * 1024 * 1024 + 1}

\* Before any health check.
NoHealth ==
    [chars |-> 0, threw |-> FALSE, isHealthy |-> TRUE, warnings |-> {}]

\* The warning checkStorageHealth pushes for the total size, if any.
SizeWarning(chars) ==
    IF 2 * chars > 8 * 1024 * 1024 THEN "full"
    ELSE IF 2 * chars > 5 * 1024 * 1024 THEN "high"
    ELSE "none"

\* The warning checkStorageHealth pushes for a symbol's count, if any.
SymbolWarningFrom(count) ==
    IF count >= NearCapacityCount THEN "near"
    ELSE IF count >= HighUsageCount THEN "high"
    ELSE "none"

SymbolWarning(count) ==
    IF count > NearCapacityCount THEN "near"
    ELSE IF count > HighUsageCount THEN "high"
    ELSE "none"

\* checkStorageHealth: the size warning, then one warning per symbol that
\* has a key in localStorage (a removed key is an empty ledger here);
\* unhealthy on a "full" size or a "near" count; a throw while reading
\* localStorage ends in the fixed unhealthy report. `warnings` is an array
\* in the order of Object.keys(localStorage); the order is left out.
checkStorageHealth(storage, chars, threw) ==
    IF threw
    THEN [isHealthy |-> FALSE,
          warnings |-> {[level |-> "failed", symbol |-> ""]}]
    ELSE LET keyed == {s \in DOMAIN storage : storage[s] # <<>>}
             flagged == {s \in keyed :
                            SymbolWarning(getStoredDataCount(storage, s))
                               # "none"}
         IN  [isHealthy |->
                 /\ SizeWarning(chars) # "full"
                 /\ \A s \in keyed :
                       SymbolWarning(getStoredDataCount(storage, s)) # "near",
              warnings |->
                 (IF SizeWarning(chars) = "none" THEN {}
                  ELSE {[level |-> SizeWarning(chars), symbol |-> ""]})
                 \cup {[level |->
                           SymbolWarning(getStoredDataCount(storage, s)),
                        symbol |-> s] : s \in flagged}]


\* ------------------------------------------------------- AutoDataCollector

VARIABLES
    now,              \* the wall clock (Date.now()), minutes, UTC
    tz,               \* the browser's time zone offset, minutes
    selectedSymbol,   \* props.selectedSymbol
    selectedMarket,   \* props.selectedMarket
    isCollecting,     \* useState
    collectionStats,  \* useState
    marketHours,      \* useState
    autoStartEnabled, \* useState
    storedCount,      \* useState
    intervalRef,      \* useRef: the handle of the cadence interval, or NoTimer
    timers,           \* the cadence intervals the browser still fires
    inflight,         \* collectData calls awaiting apiService.getMarketData
    nextId,           \* the next fresh attempt id / interval handle
    localStorage,     \* symbol -> the parsed array under marketTick_<symbol>_data
    pending,          \* the passive effects React has yet to flush
    appended,         \* history: symbol -> every record pushed since its last clear
    lastOp,           \* history: which of start, stop and clear ran last, and how
                      \* it ended, or "settledIdle" when an attempt has just
                      \* settled on an idle collector; "other" after anything
                      \* else
    lastExport,       \* history: the last call of exportStoredData, what it
                      \* met and what it handed to the browser; NoExport
                      \* before the first
    lastHealth        \* history: the last call of checkStorageHealth on its
                      \* own, what it met and what it returned; NoHealth
                      \* before the first

vars == <<now, tz, selectedSymbol, selectedMarket, isCollecting, collectionStats,
          marketHours, autoStartEnabled, storedCount, intervalRef, timers,
          inflight, nextId, localStorage, pending, appended, lastOp,
          lastExport, lastHealth>>

\* The zone of the browser the component runs in: UTC, the zone in which
\* HkFields reads Hong Kong wall-clock time. The calendar under the other
\* zones is SpecCal's.
BrowserZone == 0 * 60

\* intervalRef.current = null
NoTimer == 0

\* The clock's first reading: a Friday, 01:00 UTC (09:00 in Hong Kong); one
\* step of the clock is four hours (13:00, 17:00, ... in Hong Kong).
StartInstant == 5 * MinutesPerDay + 60
ClockStep == 4 * 60

InitialStats ==
    [totalCollections |-> 0, successfulCollections |-> 0,
     failedCollections |-> 0, lastCollectionTime |-> Null,
     collectionErrors |-> <<>>]

\* arr.slice(-4)
SliceLast5(errs) ==
    IF Len(errs) > 5 THEN SubSeq(errs, Len(errs) - 4, Len(errs)) ELSE errs

SliceLast4(errs) ==
    IF Len(errs) > 4 THEN SubSeq(errs, Len(errs) - 3, Len(errs)) ELSE errs

\* What the three outcomes of one attempt do to the statistics.
StatsSuccessNoTotal(stats, at) ==
    [stats EXCEPT !.successfulCollections = @ + 1,
                  !.lastCollectionTime = at,
                  !.collectionErrors = SliceLast4(@)]

StatsSuccess(stats, at) ==
    [stats EXCEPT !.totalCollections = @ + 1,
                  !.successfulCollections = @ + 1,
                  !.lastCollectionTime = at,
                  !.collectionErrors = SliceLast4(@)]

StatsFailureNoMessage(stats, msg) ==
    [stats EXCEPT !.totalCollections = @ + 1,
                  !.failedCollections = @ + 1,
                  !.collectionErrors = SliceLast4(@)]

StatsFailureStampsTime(stats, msg) ==
    [stats EXCEPT !.totalCollections = @ + 1,
                  !.failedCollections = @ + 1,
                  !.lastCollectionTime = StartInstant,
                  !.collectionErrors = Append(SliceLast4(@), msg)]

StatsFailure(stats, msg) ==
    [stats EXCEPT !.totalCollections = @ + 1,
                  !.failedCollections = @ + 1,
                  !.collectionErrors = Append(SliceLast4(@), msg)]

\* The outcomes of apiService.getMarketData followed by storeDataLocally.
Outcomes == {"fetchError", "stored", "quotaData", "quotaHistory"}

\* collectData up to its first await: nothing without a symbol, else one
\* more request in flight.
Launch(att) ==
    IF ~Truthy(att.symbol) THEN inflight ELSE inflight \cup {att}

\* One call of collectData: the symbol its closure holds (the market it
\* holds goes into the request and nowhere else) and who called it.
Attempt(symbol, origin) ==
    [id |-> nextId, symbol |-> symbol, origin |-> origin]

\* The Start button's `disabled` attribute (the component's own `disabled`
\* prop is left at its default, false).
StartDisabledIgnoresRunning == ~Truthy(selectedSymbol)
StartDisabled == isCollecting \/ ~Truthy(selectedSymbol)

\* The Stop button's `disabled` attribute.
StopDisabled == ~isCollecting

\* startCollection: alert and return without a symbol; else mark collecting,
\* collect immediately, then arm the 60 s interval and keep its handle. The
\* interval's callback closes over this render's collectData, hence over
\* this render's symbol.
startCollectionNoCollect ==
    /\ isCollecting' = TRUE
    /\ inflight' = inflight
    /\ timers' = timers \cup {[id |-> nextId, symbol |-> selectedSymbol]}
    /\ intervalRef' = nextId
    /\ nextId' = nextId + 1

startCollectionNoTimer ==
    /\ isCollecting' = TRUE
    /\ inflight' = Launch(Attempt(selectedSymbol, "start"))
    /\ timers' = timers
    /\ intervalRef' = intervalRef
    /\ nextId' = nextId + 1

startCollection ==
    IF ~Truthy(selectedSymbol)
    THEN UNCHANGED <<isCollecting, inflight, timers, intervalRef, nextId>>
    ELSE /\ isCollecting' = TRUE
         /\ inflight' = Launch(Attempt(selectedSymbol, "start"))
         /\ timers' = timers \cup {[id |-> nextId, symbol |-> selectedSymbol]}
         /\ intervalRef' = nextId
         /\ nextId' = nextId + 1

\* stopCollection: clear the interval whose handle intervalRef holds.
stopCollectionKeepsTimer ==
    /\ isCollecting' = FALSE
    /\ timers' = timers
    /\ intervalRef' = NoTimer

stopCollectionFlagOnly ==
    /\ isCollecting' = FALSE
    /\ timers' = timers
    /\ intervalRef' = intervalRef

stopCollection ==
    /\ isCollecting' = FALSE
    /\ timers' = {t \in timers : t.id # intervalRef}
    /\ intervalRef' = NoTimer

Init ==
    /\ now = StartInstant
    /\ tz = BrowserZone
    /\ selectedSymbol = NoSymbol
    /\ selectedMarket = InitialMarket
    /\ isCollecting = FALSE
    /\ collectionStats = InitialStats
    /\ marketHours = InitialMarketHours
    /\ autoStartEnabled = FALSE
    /\ storedCount = 0
    /\ intervalRef = NoTimer
    /\ timers = {}
    /\ inflight = {}
    /\ nextId = 1
    /\ localStorage = [s \in Symbols |-> <<>>]
    /\ pending = {"hours", "auto"}
    /\ appended = [s \in Symbols |-> <<>>]
    /\ lastOp = "other"
    /\ lastExport = NoExport
    /\ lastHealth = NoHealth

\* The parent re-renders the component with another entry of the symbol
\* list as its props.
SetProps(symbol, market) ==
    /\ pending = {}
    /\ <<symbol, market>> # <<selectedSymbol, selectedMarket>>
    /\ selectedSymbol' = symbol
    /\ selectedMarket' = market
    /\ pending' = {"auto"}
                  \cup (IF symbol # selectedSymbol THEN {"symbol"} ELSE {})
                  \cup (IF market # selectedMarket THEN {"hours"} ELSE {})
    /\ lastOp' = "other"
    /\ UNCHANGED <<lastHealth, lastExport, now, tz, isCollecting, collectionStats, marketHours,
                   autoStartEnabled, storedCount, intervalRef, timers, inflight,
                   nextId, localStorage, appended>>

\* The "Auto-start during market hours" checkbox.
ToggleAutoStart ==
    /\ pending = {}
    /\ autoStartEnabled' = ~autoStartEnabled
    /\ pending' = {"auto"}
    /\ lastOp' = "other"
    /\ UNCHANGED <<lastHealth, lastExport, now, tz, selectedSymbol, selectedMarket, isCollecting,
                   collectionStats, marketHours, storedCount, intervalRef,
                   timers, inflight, nextId, localStorage, appended>>

\* A press of the Start button: a disabled button swallows it, an enabled
\* one runs startCollection.
ClickStart ==
    /\ pending = {}
    /\ IF StartDisabled
       THEN /\ UNCHANGED <<isCollecting, inflight, timers, intervalRef, nextId,
                           pending>>
            /\ lastOp' = "startRejected"
       ELSE /\ nextId <= MaxAttempts
            /\ startCollection
            /\ pending' = {"auto"}
            /\ lastOp' = "start"
    /\ UNCHANGED <<lastHealth, lastExport, now, tz, selectedSymbol, selectedMarket, collectionStats,
                   marketHours, autoStartEnabled, storedCount, localStorage,
                   appended>>

\* A press of the Stop button.
ClickStopAndReset ==
    /\ pending = {}
    /\ IF StopDisabled
       THEN /\ UNCHANGED <<isCollecting, timers, intervalRef, pending,
                           collectionStats>>
            /\ lastOp' = "stopIgnored"
       ELSE /\ stopCollection
            /\ collectionStats' = InitialStats
            /\ pending' = {"auto"}
            /\ lastOp' = "stop"
    /\ UNCHANGED <<lastHealth, lastExport, now, tz, selectedSymbol, selectedMarket,
                   marketHours, autoStartEnabled, storedCount, inflight, nextId,
                   localStorage, appended>>

ClickStop ==
    /\ pending = {}
    /\ IF StopDisabled
       THEN /\ UNCHANGED <<isCollecting, timers, intervalRef, pending>>
            /\ lastOp' = "stopIgnored"
       ELSE /\ stopCollection
            /\ pending' = {"auto"}
            /\ lastOp' = "stop"
    /\ UNCHANGED <<lastHealth, lastExport, now, tz, selectedSymbol, selectedMarket, collectionStats,
                   marketHours, autoStartEnabled, storedCount, inflight, nextId,
                   localStorage, appended>>

\* resetStats, behind the Reset Stats button (disabled while collecting).
ClickReset ==
    /\ pending = {}
    /\ ~isCollecting
    /\ collectionStats' = InitialStats
    /\ lastOp' = "other"
    /\ UNCHANGED <<lastHealth, lastExport, now, tz, selectedSymbol, selectedMarket, isCollecting,
                   marketHours, autoStartEnabled, storedCount, intervalRef,
                   timers, inflight, nextId, localStorage, pending, appended>>

\* handleClearStored, behind the Clear Data button, which is rendered only
\* with a symbol and a positive storedCount; the user confirms the prompt.
ClickClear ==
    /\ pending = {}
    /\ Truthy(selectedSymbol)
    /\ storedCount > 0
    /\ localStorage' = clearStoredData(localStorage, selectedSymbol)
    /\ storedCount' = 0
    /\ appended' = [appended EXCEPT ![selectedSymbol] = <<>>]
    /\ lastOp' = "clear"
    /\ UNCHANGED <<lastHealth, lastExport, now, tz, selectedSymbol, selectedMarket, isCollecting,
                   collectionStats, marketHours, autoStartEnabled, intervalRef,
                   timers, inflight, nextId, pending>>


\* What the auto-start effect does in a render that shows `hours`.
AutoDecisionStartOnly(hours) ==
    IF ~autoStartEnabled THEN "none"
    ELSE IF hours.isOpen /\ ~isCollecting /\ Truthy(selectedSymbol) THEN "start"
    ELSE "none"

AutoDecisionStopOnly(hours) ==
    IF ~autoStartEnabled THEN "none"
    ELSE IF ~hours.isOpen /\ isCollecting THEN "stop"
    ELSE "none"

AutoDecisionIgnoresSwitch(hours) ==
    IF hours.isOpen /\ ~isCollecting /\ Truthy(selectedSymbol) THEN "start"
    ELSE IF ~hours.isOpen /\ isCollecting THEN "stop"
    ELSE "none"

AutoDecision(hours) ==
    IF ~autoStartEnabled THEN "none"
    ELSE IF hours.isOpen /\ ~isCollecting /\ Truthy(selectedSymbol) THEN "start"
    ELSE IF ~hours.isOpen /\ isCollecting THEN "stop"
    ELSE "none"

\* React flushes the passive effects of the last commit, in the order the
\* component declares them, before it handles anything else:
\*   "hours"  the effect on [getMarketHours]: updateMarketHours() (its
\*            interval is re-created, one market-hours interval stays live);
\*   "symbol" the effect on [selectedSymbol]: refresh storedCount;
\*   "auto"   the auto-start/stop effect, which reads the marketHours and
\*            isCollecting of the render it belongs to.
\* The state the effects set is committed together; a change of a
\* dependency of the auto effect schedules it again.
FlushEffects ==
    /\ pending # {}
    /\ LET hours == IF "hours" \in pending
                    THEN getMarketHours(selectedMarket, now, tz)
                    ELSE marketHours
           decision == IF "auto" \in pending
                       THEN AutoDecision(marketHours) ELSE "none"
       IN  /\ marketHours' = hours
           /\ storedCount' =
                 IF "symbol" \in pending /\ Truthy(selectedSymbol)
                 THEN getStoredDataCount(localStorage, selectedSymbol)
                 ELSE storedCount
           /\ CASE decision = "start" ->
                     /\ nextId <= MaxAttempts
                     /\ startCollection
                     /\ lastOp' = "autoStart"
                [] decision = "stop" ->
                     /\ stopCollection
                     /\ lastOp' = "autoStop"
                     /\ UNCHANGED <<inflight, nextId>>
                [] OTHER ->
                     /\ lastOp' = "other"
                     /\ UNCHANGED <<isCollecting, inflight, timers, intervalRef,
                                    nextId>>
           /\ pending' = IF hours.isOpen # marketHours.isOpen \/ decision # "none"
                         THEN {"auto"} ELSE {}
    /\ UNCHANGED <<lastHealth, lastExport, now, tz, selectedSymbol, selectedMarket, collectionStats,
                   autoStartEnabled, localStorage, appended>>

\* The market-hours interval fires: setMarketHours(getMarketHours()).
UpdateMarketHours ==
    /\ pending = {}
    /\ marketHours' = getMarketHours(selectedMarket, now, tz)
    /\ pending' = IF marketHours'.isOpen # marketHours.isOpen
                  THEN {"auto"} ELSE {}
    /\ lastOp' = "other"
    /\ UNCHANGED <<lastHealth, lastExport, now, tz, selectedSymbol, selectedMarket, isCollecting,
                   collectionStats, autoStartEnabled, storedCount, intervalRef,
                   timers, inflight, nextId, localStorage, appended>>

\* A live cadence interval fires: collectData() of the render that armed it.
CadenceTick ==
    /\ pending = {}
    /\ nextId <= MaxAttempts
    /\ \E t \in timers :
          inflight' = Launch(Attempt(t.symbol, "tick"))
    /\ nextId' = nextId + 1
    /\ lastOp' = "other"
    /\ UNCHANGED <<lastHealth, lastExport, now, tz, selectedSymbol, selectedMarket, isCollecting,
                   collectionStats, marketHours, autoStartEnabled, storedCount,
                   intervalRef, timers, localStorage, pending, appended>>

\* The record storeDataLocally builds for an attempt's response: its
\* metadata.collectedAt is the clock, its payload the response.
RecordNegatedClock(att) == [collectedAt |-> 0 - now, payload |-> att.id]
Record(att) == [collectedAt |-> now, payload |-> att.id]

\* The rest of collectData, once apiService.getMarketData settles: a thrown
\* error or a response without data counts a failure; a response with data
\* goes to storeDataLocally under the response's symbol (the server echoes
\* the request's), and the boolean it returns decides between a success
\* and a "Storage failed" failure.
CompleteAttempt(att, outcome) ==
    /\ pending = {}
    /\ att \in inflight
    /\ inflight' = inflight \ {att}
    /\ IF outcome = "fetchError"
       THEN /\ collectionStats' =
                 StatsFailure(collectionStats, [msg |-> "fetch", id |-> att.id])
            /\ UNCHANGED <<localStorage, appended, storedCount>>
       ELSE /\ localStorage' =
                 storeDataLocally(localStorage, att.symbol, Record(att), outcome)
            /\ appended' =
                 IF outcome = "quotaData" THEN appended
                 ELSE [appended EXCEPT ![att.symbol] = Append(@, Record(att))]
            /\ IF storeDataLocallyResult(outcome)
               THEN /\ collectionStats' = StatsSuccess(collectionStats, now)
                    /\ storedCount' = getStoredDataCount(localStorage', att.symbol)
               ELSE /\ collectionStats' =
                         StatsFailure(collectionStats,
                                      [msg |-> "storage", id |-> att.id])
                    /\ UNCHANGED storedCount
    /\ lastOp' = IF isCollecting THEN "other" ELSE "settledIdle"
    /\ UNCHANGED <<lastHealth, lastExport, now, tz, selectedSymbol, selectedMarket, isCollecting,
                   marketHours, autoStartEnabled, intervalRef, timers, nextId,
                   pending>>

\* Time passes.
AdvanceClock ==
    /\ pending = {}
    /\ now < StartInstant + MaxClockSteps * ClockStep
    /\ now' = now + ClockStep
    /\ UNCHANGED <<lastHealth, lastExport, tz, selectedSymbol, selectedMarket,
                   isCollecting, collectionStats, marketHours,
                   autoStartEnabled, storedCount, intervalRef, timers, inflight,
                   nextId, localStorage, pending, appended>>
    /\ lastOp' = "other"

Next ==
    \/ \E e \in SymbolList : SetProps(e[1], e[2])
    \/ ToggleAutoStart
    \/ ClickStart
    \/ ClickStop
    \/ ClickReset
    \/ ClickClear
    \/ FlushEffects
    \/ UpdateMarketHours
    \/ CadenceTick
    \/ \E a \in inflight, o \in Outcomes : CompleteAttempt(a, o)
    \/ AdvanceClock

Spec == Init /\ [][Next]_vars


\* ------------------------------------------------- the calendar on its own

\* The component is mounted at any minute of a week, in any of the zones,
\* with any market; the mount's effects compute the market hours.
CalInit ==
    /\ now \in 0 .. (MinutesPerWeek - 1)
    /\ tz \in TzOffsets
    /\ selectedSymbol = NoSymbol
    /\ selectedMarket \in Markets
    /\ isCollecting = FALSE
    /\ collectionStats = InitialStats
    /\ marketHours = InitialMarketHours
    /\ autoStartEnabled = FALSE
    /\ storedCount = 0
    /\ intervalRef = NoTimer
    /\ timers = {}
    /\ inflight = {}
    /\ nextId = 1
    /\ localStorage = [s \in Symbols |-> <<>>]
    /\ pending = {"hours", "auto"}
    /\ appended = [s \in Symbols |-> <<>>]
    /\ lastOp = "other"
    /\ lastExport = NoExport
    /\ lastHealth = NoHealth

CalNext == FlushEffects

SpecCal == CalInit /\ [][CalNext]_vars

\* marketHours holds getMarketHours of the current market, clock and zone.
Evaluated == "hours" \notin pending

\* Hong Kong wall-clock time (UTC+8) of the clock's reading.
HkNow == now + HKOffset
HkWeekday == DayOf(HkNow) \in 1 .. 5
HkTime == TimeInMinutes(HkNow)

\* The instant at which Hong Kong's clocks show time-of-day hm, `days`
\* days after the Hong Kong day of the clock's reading.
HkInstant(days, hm) == SetHours(HkNow + days * MinutesPerDay, hm) - HKOffset


\* --------------------------------------------------- the export on its own

\* The slices a chunked export can fail at; 0 is "at none".
FailPoints == 0 .. ((MaxRecords + chunkSize - 1) \div chunkSize)

\* A ledger left in localStorage by earlier sessions: k records, oldest
\* first, collected in the minutes before the clock's first reading.
StoredLedger(k) ==
    [i \in 1 .. k |-> [collectedAt |-> StartInstant - (k - i) - 1,
                       payload |-> i]]

\* handleExportStored, behind the Download button, which is rendered only
\* with a symbol and a positive storedCount: a 'No stored data found'
\* status and no export when getStorageStats counts no record, else
\* exportStoredData(symbol) in its default format (the user confirms the
\* prompt of a large export).
ClickExportAndClear(dataSize, fault, failAt) ==
    /\ pending = {}
    /\ Truthy(selectedSymbol)
    /\ storedCount > 0
    /\ LET r == IF getStoredDataCount(localStorage, selectedSymbol) = 0
                THEN [ok |-> FALSE, plan |-> "none", files |-> <<>>]
                ELSE exportStoredData(localStorage, selectedSymbol, "json",
                                      dataSize, fault, failAt)
       IN  /\ lastExport' = [symbol |-> selectedSymbol, dataSize |-> dataSize,
                             fault |-> fault, ok |-> r.ok, plan |-> r.plan,
                             files |-> r.files]
           /\ localStorage' = IF r.ok
                               THEN clearStoredData(localStorage, selectedSymbol)
                               ELSE localStorage
    /\ lastOp' = "other"
    /\ UNCHANGED <<lastHealth, now, tz, selectedSymbol, selectedMarket, isCollecting,
                   collectionStats, marketHours, autoStartEnabled, storedCount,
                   intervalRef, timers, inflight, nextId, pending, appended>>

ClickExport(dataSize, fault, failAt) ==
    /\ pending = {}
    /\ Truthy(selectedSymbol)
    /\ storedCount > 0
    /\ LET r == IF getStoredDataCount(localStorage, selectedSymbol) = 0
                THEN [ok |-> FALSE, plan |-> "none", files |-> <<>>]
                ELSE exportStoredData(localStorage, selectedSymbol, "json",
                                      dataSize, fault, failAt)
       IN  lastExport' = [symbol |-> selectedSymbol, dataSize |-> dataSize,
                          fault |-> fault, ok |-> r.ok, plan |-> r.plan,
                          files |-> r.files]
    /\ lastOp' = "other"
    /\ UNCHANGED <<lastHealth, now, tz, selectedSymbol, selectedMarket, isCollecting,
                   collectionStats, marketHours, autoStartEnabled, storedCount,
                   intervalRef, timers, inflight, nextId, localStorage, pending,
                   appended>>

\* The statistics after one stored and one failed attempt.
UsedStats ==
    StatsFailure(StatsSuccess(InitialStats, StartInstant),
                 [msg |-> "fetch", id |-> 1])

\* The component with its effects flushed and no request in flight, idle
\* or collecting with its interval armed (the Download button is enabled
\* in both), its statistics fresh or used, with either symbol selected
\* and ledgers of any length up to MaxRecords in localStorage. storedCount
\* is the count the component read; localStorage is shared with the other
\* pages of the origin, so a ledger the component counted one record in may
\* have been removed since.
ExportInit ==
    /\ now = StartInstant
    /\ tz = BrowserZone
    /\ \E e \in SymbolList : selectedSymbol = e[1] /\ selectedMarket = e[2]
    /\ isCollecting \in BOOLEAN
    /\ collectionStats \in {InitialStats, UsedStats}
    /\ marketHours = getMarketHours(selectedMarket, now, tz)
    /\ autoStartEnabled = FALSE
    /\ localStorage \in [Symbols -> {StoredLedger(k) : k \in 0 .. MaxRecords}]
    /\ storedCount \in
          {getStoredDataCount(localStorage, selectedSymbol)}
             \cup (IF localStorage[selectedSymbol] = <<>> THEN {1} ELSE {})
    /\ intervalRef = IF isCollecting THEN 1 ELSE NoTimer
    /\ timers = IF isCollecting
                THEN {[id |-> 1, symbol |-> selectedSymbol]} ELSE {}
    /\ inflight = {}
    /\ nextId = IF isCollecting THEN 2 ELSE 1
    /\ pending = {}
    /\ appended = localStorage
    /\ lastOp = "other"
    /\ lastExport = NoExport
    /\ lastHealth = NoHealth

ExportNext ==
    \E d \in DataSizes, f \in Faults, c \in FailPoints : ClickExport(d, f, c)

SpecExport == ExportInit /\ [][ExportNext]_vars


\* ------------------------------------------- the health check on its own

\* One call of checkStorageHealth: `chars` characters are stored under the
\* marketTick_ keys (none exactly when there is no ledger), and reading
\* localStorage throws or does not.
CheckHealth(chars, threw) ==
    /\ pending = {}
    /\ (chars = 0) <=> (\A s \in Symbols : localStorage[s] = <<>>)
    /\ LET r == checkStorageHealth(localStorage, chars, threw)
       IN  lastHealth' = [chars |-> chars, threw |-> threw,
                          isHealthy |-> r.isHealthy, warnings |-> r.warnings]
    /\ lastOp' = "other"
    /\ UNCHANGED <<lastExport, now, tz, selectedSymbol, selectedMarket,
                   isCollecting, collectionStats, marketHours,
                   autoStartEnabled, storedCount, intervalRef, timers, inflight,
                   nextId, localStorage, pending, appended>>

\* The component is idle with a symbol selected, and each ledger in
\* localStorage has one of the lengths of HealthCounts.
HealthInit ==
    /\ now = StartInstant
    /\ tz = BrowserZone
    /\ selectedSymbol = "700.HK"
    /\ selectedMarket = "hkex"
    /\ isCollecting = FALSE
    /\ collectionStats = InitialStats
    /\ marketHours = getMarketHours(selectedMarket, now, tz)
    /\ autoStartEnabled = FALSE
    /\ localStorage \in [Symbols -> {StoredLedger(k) : k \in HealthCounts}]
    /\ storedCount = getStoredDataCount(localStorage, selectedSymbol)
    /\ intervalRef = NoTimer
    /\ timers = {}
    /\ inflight = {}
    /\ nextId = 1
    /\ pending = {}
    /\ appended = localStorage
    /\ lastOp = "other"
    /\ lastExport = NoExport
    /\ lastHealth = NoHealth

HealthNext ==
    \E c \in StorageChars, t \in BOOLEAN : CheckHealth(c, t)

SpecHealth == HealthInit /\ [][HealthNext]_vars


\* ----------------------------------------------- the statistics on their own

\* The updates collectData makes to the statistics when an attempt ends,
\* one attempt after the other: the success update, and the failure update
\* with the message of a failed fetch or of a failed store.
AttemptSucceeds ==
    /\ nextId <= MaxRuns
    /\ collectionStats' = StatsSuccess(collectionStats, now)
    /\ nextId' = nextId + 1
    /\ lastOp' = "other"
    /\ UNCHANGED <<lastHealth, lastExport, now, tz, selectedSymbol, selectedMarket,
                   isCollecting, marketHours, autoStartEnabled, storedCount,
                   intervalRef, timers, inflight, localStorage, pending,
                   appended>>

AttemptFails(msg) ==
    /\ nextId <= MaxRuns
    /\ collectionStats' =
          StatsFailure(collectionStats, [msg |-> msg, id |-> nextId])
    /\ nextId' = nextId + 1
    /\ lastOp' = "other"
    /\ UNCHANGED <<lastHealth, lastExport, now, tz, selectedSymbol, selectedMarket,
                   isCollecting, marketHours, autoStartEnabled, storedCount,
                   intervalRef, timers, inflight, localStorage, pending,
                   appended>>

\* The component after its mount's effects: idle, no symbol, statistics at
\* their initial value.
StatsInit ==
    /\ now = StartInstant
    /\ tz = BrowserZone
    /\ selectedSymbol = NoSymbol
    /\ selectedMarket = InitialMarket
    /\ isCollecting = FALSE
    /\ collectionStats = InitialStats
    /\ marketHours = getMarketHours(selectedMarket, now, tz)
    /\ autoStartEnabled = FALSE
    /\ storedCount = 0
    /\ intervalRef = NoTimer
    /\ timers = {}
    /\ inflight = {}
    /\ nextId = 1
    /\ localStorage = [s \in Symbols |-> <<>>]
    /\ pending = {}
    /\ appended = [s \in Symbols |-> <<>>]
    /\ lastOp = "other"
    /\ lastExport = NoExport
    /\ lastHealth = NoHealth

StatsNext ==
    \/ AttemptSucceeds
    \/ \E m \in {"fetch", "storage"} : AttemptFails(m)
    \/ ClickReset

SpecStats == StatsInit /\ [][StatsNext]_vars


\* ------------------------------------------ the collector under fair timers

\* The component with a symbol selected and its effects flushed: idle, the
\* auto-start switch off, the market hours computed.
LiveInit ==
    /\ now = StartInstant
    /\ tz = BrowserZone
    /\ \E e \in SymbolList : selectedSymbol = e[1] /\ selectedMarket = e[2]
    /\ isCollecting = FALSE
    /\ collectionStats = InitialStats
    /\ marketHours = getMarketHours(selectedMarket, now, tz)
    /\ autoStartEnabled = FALSE
    /\ storedCount = 0
    /\ intervalRef = NoTimer
    /\ timers = {}
    /\ inflight = {}
    /\ nextId = 1
    /\ localStorage = [s \in Symbols |-> <<>>]
    /\ pending = {}
    /\ appended = [s \in Symbols |-> <<>>]
    /\ lastOp = "other"
    /\ lastExport = NoExport
    /\ lastHealth = NoHealth

\* The steps that bear on whether the collector runs: the switch and the
\* two buttons, the effects, the two intervals, the clock, and requests
\* that settle (their fetch fails or their response is stored).
LiveNext ==
    \/ ToggleAutoStart
    \/ ClickStart
    \/ ClickStop
    \/ FlushEffects
    \/ UpdateMarketHours
    \/ CadenceTick
    \/ \E a \in inflight, o \in {"fetchError", "stored"} : CompleteAttempt(a, o)
    \/ AdvanceClock

\* React runs the effects of every commit, and the browser fires the
\* market-hours interval as long as the component is mounted.
SpecLive ==
    /\ LiveInit
    /\ [][LiveNext]_vars
    /\ WF_vars(FlushEffects)
    /\ WF_vars(UpdateMarketHours)


\* ------------------------------------------------------------------ claims

\* C1: in every reachable state, every symbol's ledger holds at most
\* Capacity records, whatever appends, clears and scheduler operations ran.
C1_LedgerWithinCapacity ==
    \A s \in Symbols : Len(localStorage[s]) <= Capacity

\* C1's case: a ledger is full and has already evicted a record.
C1_Witness ==
    \E s \in Symbols :
        Len(localStorage[s]) = Capacity /\ Len(appended[s]) > Capacity

\* The last n elements of a sequence (all of it when it is shorter).
LastN(seq, n) ==
    IF Len(seq) > n THEN SubSeq(seq, Len(seq) - n + 1, Len(seq)) ELSE seq

C3_ClearEmptiesOnlyItsSymbol ==
    [][ClickClear =>
         /\ getStoredDataCount(localStorage', selectedSymbol) = 0
         /\ \A s \in Symbols \ {selectedSymbol} :
                localStorage'[s] = localStorage[s]]_vars

\* C3's case: a clear has just run while another symbol holds records.
C3_Witness ==
    /\ lastOp = "clear"
    /\ localStorage[selectedSymbol] = <<>>
    /\ \E s \in Symbols \ {selectedSymbol} : localStorage[s] # <<>>

\* C4: for the crypto market the calendar reports an open session at every
\* instant of the week, in every zone.
C4_CryptoAlwaysOpen ==
    (selectedMarket = "crypto" /\ Evaluated) => marketHours.isOpen

\* C4's case: crypto, evaluated at Sunday 00:00 Hong Kong time.
C4_Witness ==
    /\ selectedMarket = "crypto"
    /\ Evaluated
    /\ DayOf(HkNow) = 0
    /\ HkTime = 0
    /\ marketHours.isOpen

\* C5: for an equity market on a Hong Kong weekday, an instant in
\* [09:30, 12:00) is an open morning session that closes at 12:00 that day,
\* and an instant in [13:00, 16:00) an open afternoon session that closes
\* at 16:00 that day.
C5_SessionWindows ==
    (selectedMarket # "crypto" /\ Evaluated /\ HkWeekday) =>
        /\ (HkTime >= morningStart /\ HkTime < morningEnd) =>
              /\ marketHours.isOpen
              /\ marketHours.sessionType = "morning"
              /\ marketHours.nextClose = HkInstant(0, morningEnd)
        /\ (HkTime >= afternoonStart /\ HkTime < afternoonEnd) =>
              /\ marketHours.isOpen
              /\ marketHours.sessionType = "afternoon"
              /\ marketHours.nextClose = HkInstant(0, afternoonEnd)

\* C6: on a Hong Kong weekday the equity session bounds are inclusive at
\* the open and exclusive at the close: open at exactly 09:30 and 13:00,
\* closed at exactly 12:00 with the next open at 13:00 that day, closed at
\* exactly 16:00.
C6_BoundaryInstants ==
    (selectedMarket # "crypto" /\ Evaluated /\ HkWeekday) =>
        /\ HkTime \in {morningStart, afternoonStart} => marketHours.isOpen
        /\ HkTime = morningEnd =>
              /\ ~marketHours.isOpen
              /\ marketHours.nextOpen = HkInstant(0, afternoonStart)
        /\ HkTime = afternoonEnd => ~marketHours.isOpen

\* C7: while no symbol is set, no step - a press of Start and the
\* auto-start effect included - starts anything: the collector stays idle,
\* no cadence interval is armed, no attempt is launched and the statistics
\* stay as they are.
C7_NoStartWithoutSymbol ==
    [][selectedSymbol = NoSymbol =>
         /\ ~isCollecting'
         /\ timers' = {}
         /\ intervalRef' = NoTimer
         /\ inflight' = inflight
         /\ collectionStats' = collectionStats]_vars

\* C7's case: Start was pressed with no symbol set and was rejected.
C7_Witness ==
    /\ lastOp = "startRejected"
    /\ selectedSymbol = NoSymbol
    /\ ~isCollecting
    /\ timers = {}

\* A step that starts the collector: an accepted press of Start, or any
\* step that takes isCollecting from false to true.
StartStep ==
    \/ ClickStart /\ ~StartDisabled
    \/ ~isCollecting /\ isCollecting'

\* C8: a start launches exactly one collection attempt for the selected
\* symbol in the start step itself, hence before the interval it arms can
\* fire; the same step arms exactly one new interval, keeps its handle, and
\* leaves the collector running.
C8_StartCollectsThenArms ==
    [][StartStep =>
         /\ isCollecting'
         /\ \E a \in inflight' \ inflight :
               /\ inflight' = inflight \cup {a}
               /\ a.origin = "start"
               /\ a.symbol = selectedSymbol
         /\ \E t \in timers' \ timers :
               /\ timers' = timers \cup {t}
               /\ t.symbol = selectedSymbol
               /\ intervalRef' = t.id
               /\ \A a \in inflight' : a.origin = "tick" => a.id < t.id]_vars

\* C8's case: Start has just run; its attempt is in flight, its interval
\* armed.
C8_Witness ==
    /\ lastOp = "start"
    /\ isCollecting
    /\ \E a \in inflight : a.origin = "start" /\ a.symbol = selectedSymbol
    /\ \E t \in timers : t.id = intervalRef

\* C9: at most one cadence interval is live at any time, and after a stop
\* none is.
C9_SingleTimer ==
    /\ Cardinality(timers) <= 1
    /\ lastOp \in {"stop", "autoStop"} => timers = {}

\* C9's case: Start was pressed again while the collector was running.
C9_Witness ==
    /\ lastOp = "startRejected"
    /\ isCollecting
    /\ Cardinality(timers) = 1

\* C10: a stop leaves the collector idle with no interval armed and the
\* handle cleared; a stop while idle changes nothing at all (so a second
\* stop leaves what the first left).
C10_StopDisarmsAndIsIdempotent ==
    [][ClickStop =>
         /\ ~isCollecting' /\ timers' = {} /\ intervalRef' = NoTimer
         /\ ~isCollecting =>
               UNCHANGED <<lastHealth, lastExport, now, tz, selectedSymbol, selectedMarket,
                           isCollecting, collectionStats, marketHours,
                           autoStartEnabled, storedCount, intervalRef, timers,
                           inflight, nextId, localStorage, pending,
                           appended>>]_vars

\* C10's case: Stop has just run on a running collector whose first
\* attempt was still in flight.
C10_Witness ==
    /\ lastOp = "stop"
    /\ ~isCollecting
    /\ timers = {}
    /\ intervalRef = NoTimer
    /\ inflight # {}

\* C11: in every reachable state the collecting flag and the cadence
\* interval agree: a running collector has a live interval, the one whose
\* handle it keeps, and an idle collector has no live interval and no
\* handle.
C11_StateAgreesWithTimer ==
    /\ isCollecting => \E t \in timers : t.id = intervalRef
    /\ ~isCollecting => (timers = {} /\ intervalRef = NoTimer)

\* C11's case: a collector left running with its interval through an
\* attempt's completion, a switch to auto-start and a change of symbol.
C11_Witness ==
    /\ isCollecting
    /\ autoStartEnabled
    /\ collectionStats.totalCollections > 0
    /\ \E t \in timers : t.id = intervalRef /\ t.symbol # selectedSymbol

\* C12: while the collector stays idle - from a stop until the next start -
\* no attempt is launched; a ledger grows only by the single record of an
\* attempt that was already in flight, and shrinks only by a clear.
C12_NoAttemptAfterStop ==
    [][(~isCollecting /\ ~isCollecting') =>
         /\ inflight' \subseteq inflight
         /\ nextId' = nextId
         /\ \A s \in Symbols :
               appended'[s] # appended[s] =>
                  \/ appended'[s] = <<>>
                  \/ \E a \in inflight \ inflight' :
                        /\ a.symbol = s
                        /\ appended'[s] = Append(appended[s], Record(a))]_vars

\* C12's case: the collector was stopped with an attempt in flight, and
\* that attempt has just settled and committed its record.
C12_Witness ==
    /\ lastOp = "settledIdle"
    /\ ~isCollecting
    /\ timers = {}
    /\ inflight = {}
    /\ collectionStats.successfulCollections > 0
    /\ \E s \in Symbols : appended[s] # <<>>

\* A run of the auto-start/stop effect with auto-start enabled.
AutoEffectRuns == FlushEffects /\ "auto" \in pending /\ autoStartEnabled

\* C13: with auto-start enabled, a run of the auto effect starts an idle
\* collector that has a symbol when the session is open and stops a running
\* one when the session is closed; once the effects have run, the collector
\* of a closed session is idle (a manual start before them does not change
\* that) and the collector of an open session with a symbol is running.
C13_AutoTickStartsAndStops ==
    /\ [][AutoEffectRuns =>
            /\ (marketHours.isOpen /\ ~isCollecting
                    /\ selectedSymbol # NoSymbol)
                  => (isCollecting' /\ timers' # {})
            /\ (~marketHours.isOpen /\ isCollecting)
                  => (~isCollecting' /\ timers' = {})]_vars
    /\ []((pending = {} /\ autoStartEnabled) =>
            /\ ~marketHours.isOpen => ~isCollecting
            /\ (marketHours.isOpen /\ selectedSymbol # NoSymbol)
                  => isCollecting)

\* C13's case: auto-start is enabled, the clock stands at a closed instant
\* of the selected stock, Start was pressed, and the auto effect has just
\* stopped the collector again; the attempt of the manual start is still
\* in flight.
C13_Witness ==
    /\ lastOp = "autoStop"
    /\ autoStartEnabled
    /\ ~isCollecting
    /\ selectedSymbol = "700.HK"
    /\ ~getMarketHours(selectedMarket, now, tz).isOpen
    /\ ~marketHours.isOpen
    /\ \E a \in inflight : a.symbol = "700.HK" /\ a.origin = "start"

\* C14: a manual stop (start) is not overridden before the next check of
\* the calendar: the step that follows the press - never a calendar check,
\* since the effects of the press run first - leaves the collector idle
\* (running).
C14_ManualHoldsUntilNextCheck ==
    [][/\ lastOp = "stop" => ~isCollecting'
       /\ lastOp = "start" => isCollecting']_vars

\* C15: the step in which an attempt settles adds one to totalCollections
\* and one to exactly one of successfulCollections (the response was
\* stored) and failedCollections (the fetch failed or the store did); in
\* every reachable state the total is the sum of the two.
C15_EveryAttemptCounted ==
    /\ [](collectionStats.totalCollections =
             collectionStats.successfulCollections
                + collectionStats.failedCollections)
    /\ [][\A a \in inflight, o \in Outcomes :
            CompleteAttempt(a, o) =>
               /\ collectionStats'.totalCollections =
                     collectionStats.totalCollections + 1
               /\ collectionStats'.successfulCollections =
                     collectionStats.successfulCollections
                        + (IF o = "stored" THEN 1 ELSE 0)
               /\ collectionStats'.failedCollections =
                     collectionStats.failedCollections
                        + (IF o = "stored" THEN 0 ELSE 1)]_vars

\* C15's case: one attempt launched by a start and one by the interval
\* have settled, one stored and one failed.
C15_Witness ==
    /\ collectionStats.totalCollections = 2
    /\ collectionStats.successfulCollections = 1
    /\ collectionStats.failedCollections = 1
    /\ inflight = {}
    /\ nextId = 3
    /\ Cardinality(timers) = 1

\* C16: collectionErrors never holds more than 5 messages; a failed attempt
\* puts its message at the end, and the oldest message goes when there
\* were 5 already.
C16_RecentErrorsBounded ==
    /\ [](Len(collectionStats.collectionErrors) <= 5)
    /\ [][\A m \in {"fetch", "storage"} :
            AttemptFails(m) =>
               collectionStats'.collectionErrors =
                  LastN(Append(collectionStats.collectionErrors,
                               [msg |-> m, id |-> nextId]), 5)]_vars

\* C16's case: six attempts failed in a row; the list holds the messages
\* of the second to the sixth.
C16_Witness ==
    /\ collectionStats.failedCollections = 6
    /\ collectionStats.successfulCollections = 0
    /\ Len(collectionStats.collectionErrors) = 5
    /\ \A i \in 1 .. 5 : collectionStats.collectionErrors[i].id = i + 1

\* C17: at most one collection attempt is in flight at any time.
C17_AttemptsNeverOverlap == Cardinality(inflight) <= 1

\* C18: the selected symbol does not change while the collector is
\* running, and every live cadence interval collects for the selected
\* symbol.
C18_SymbolFixedWhileRunning ==
    /\ [][isCollecting => selectedSymbol' = selectedSymbol]_vars
    /\ [](\A t \in timers : t.symbol = selectedSymbol)

\* C19: the step in which an attempt fails (its fetch or its store) leaves
\* the collector as it was - running if it was running, its interval live,
\* its handle kept, nothing scheduled - and shows in the statistics alone:
\* one more failed collection, its message last in collectionErrors.
C19_FailureDoesNotHalt ==
    [][\A a \in inflight, o \in Outcomes \ {"stored"} :
         CompleteAttempt(a, o) =>
            /\ UNCHANGED <<isCollecting, timers, intervalRef,
                           autoStartEnabled, marketHours, pending>>
            /\ collectionStats'.failedCollections =
                  collectionStats.failedCollections + 1
            /\ collectionStats'.collectionErrors # <<>>
            /\ collectionStats'.collectionErrors[
                  Len(collectionStats'.collectionErrors)].id = a.id]_vars

\* C19's case: an attempt has failed, the collector is still running with
\* its interval, and the interval has since launched another attempt.
C19_Witness ==
    /\ isCollecting
    /\ collectionStats.failedCollections > 0
    /\ \E t \in timers : t.id = intervalRef
    /\ \E a \in inflight :
          /\ a.origin = "tick"
          /\ \A i \in 1 .. Len(collectionStats.collectionErrors) :
                collectionStats.collectionErrors[i].id < a.id

\* C20: an export of a non-empty ledger is chunked exactly when the size
\* of the serialised records is over 50 MB, and otherwise is one file with
\* every record.
C20_PlanBySizeAlone ==
    (lastExport # NoExport /\ localStorage[lastExport.symbol] # <<>>) =>
        IF lastExport.dataSize > SizeBudget
        THEN lastExport.plan = "chunked"
        ELSE /\ lastExport.plan = "single"
             /\ Len(lastExport.files) = 1
             /\ lastExport.files[1].data = localStorage[lastExport.symbol]

\* The records of a sequence of export files, in the order of the files,
\* and the sum of the counts the files announce.
RECURSIVE ConcatData(_)
ConcatData(files) ==
    IF files = <<>> THEN <<>>
    ELSE ConcatData(SubSeq(files, 1, Len(files) - 1))
            \o files[Len(files)].data

RECURSIVE SumRecordsInChunk(_)
SumRecordsInChunk(files) ==
    IF files = <<>> THEN 0
    ELSE SumRecordsInChunk(SubSeq(files, 1, Len(files) - 1))
            + files[Len(files)].recordsInChunk

\* C21: the files of a chunked export of n records are numbered 1, 2, ...
\* and each names the number of chunks, ceil(n / chunkSize), and its own
\* count; every chunk but the last holds exactly chunkSize records and the
\* last between 1 and chunkSize; a chunked export that succeeded wrote
\* every chunk, and its chunks in order are the ledger, their counts
\* summing to n.
C21_ChunksPartitionInOrder ==
    lastExport.plan = "chunked" =>
        LET files == lastExport.files
            ledger == localStorage[lastExport.symbol]
            n == Len(ledger)
            total == (n + chunkSize - 1) \div chunkSize
        IN  /\ Len(files) <= total
            /\ \A i \in 1 .. Len(files) :
                  /\ files[i].chunkNumber = i
                  /\ files[i].totalChunks = total
                  /\ files[i].totalRecords = n
                  /\ files[i].recordsInChunk = Len(files[i].data)
                  /\ i < total => Len(files[i].data) = chunkSize
                  /\ i = total =>
                        (Len(files[i].data) >= 1
                            /\ Len(files[i].data) <= chunkSize)
            /\ lastExport.ok =>
                  /\ Len(files) = total
                  /\ ConcatData(files) = ledger
                  /\ SumRecordsInChunk(files) = n

\* C21's case: a chunked export of a ledger that does not divide into full
\* chunks has succeeded; its last chunk is short.
C21_Witness ==
    /\ lastExport.plan = "chunked"
    /\ lastExport.ok
    /\ Len(lastExport.files) > 2
    /\ lastExport.files[Len(lastExport.files)].recordsInChunk < chunkSize
    /\ ConcatData(lastExport.files) = localStorage[lastExport.symbol]

\* C22: an export of an empty ledger, and one whose blob comes out with
\* size 0, report failure and write no file; so does one that met an error
\* that is not about size; and an export that reports success has written
\* the whole ledger, in one file or in chunks, and nothing else.
C22_NoSilentEmptyOrPartialExport ==
    lastExport # NoExport =>
        LET ledger == localStorage[lastExport.symbol]
        IN  /\ ledger = <<>> => (~lastExport.ok /\ lastExport.files = <<>>)
            /\ lastExport.fault \in {"emptyBlob", "errorOther"}
                  => (~lastExport.ok /\ lastExport.files = <<>>)
            /\ lastExport.ok =>
                  /\ lastExport.files # <<>>
                  /\ ConcatData(lastExport.files) = ledger

\* C22's case: the blob of a non-empty ledger came out with size 0; the
\* export reported failure and wrote nothing.
C22_Witness ==
    /\ lastExport.fault = "emptyBlob"
    /\ localStorage[lastExport.symbol] # <<>>
    /\ ~lastExport.ok
    /\ lastExport.files = <<>>

\* C23: a health check that could read localStorage reports unhealthy
\* whenever some symbol holds more than 9000 records, and warns of that
\* symbol; for a symbol with more than 7000 and at most 9000 records it
\* warns without that symbol making the report unhealthy (the report is
\* unhealthy only on a count over 9000 or on the total size); a symbol with
\* at most 7000 records gets no warning.
C23_HealthThresholds ==
    (lastHealth # NoHealth /\ ~lastHealth.threw) =>
        /\ \A s \in Symbols :
              LET n == getStoredDataCount(localStorage, s)
                  mine == {w \in lastHealth.warnings : w.symbol = s}
              IN  /\ n > 9000 =>
                        (~lastHealth.isHealthy
                            /\ mine = {[level |-> "near", symbol |-> s]})
                  /\ (n > 7000 /\ n <= 9000) =>
                        mine = {[level |-> "high", symbol |-> s]}
                  /\ n <= 7000 => mine = {}
        /\ ~lastHealth.isHealthy =>
              \/ \E s \in Symbols : getStoredDataCount(localStorage, s) > 9000
              \/ 2 * lastHealth.chars > 8 * 1024 * 1024

\* C23's case: one ledger holds 9001 records and the other 7001; the report
\* is unhealthy and warns of both.
C23_Witness ==
    /\ lastHealth # NoHealth
    /\ ~lastHealth.threw
    /\ ~lastHealth.isHealthy
    /\ getStoredDataCount(localStorage, "700.HK") = 9001
    /\ getStoredDataCount(localStorage, "BTCUSDT") = 7001
    /\ [level |-> "near", symbol |-> "700.HK"] \in lastHealth.warnings
    /\ [level |-> "high", symbol |-> "BTCUSDT"] \in lastHealth.warnings

\* C24: for an equity market, at or after 16:00 of a Hong Kong weekday the
\* session is closed and the next open is 09:30 of the next weekday: the
\* next day from Monday to Thursday, the following Monday on a Friday.
C24_AfterCloseRollsToWeekday ==
    (selectedMarket # "crypto" /\ Evaluated /\ HkWeekday
        /\ HkTime >= afternoonEnd) =>
        /\ ~marketHours.isOpen
        /\ marketHours.nextOpen =
              HkInstant(IF DayOf(HkNow) = 5 THEN 3 ELSE 1, morningStart)

\* C25: for an equity market, at every instant of a Hong Kong Saturday or
\* Sunday the session is closed, there is no next close, and the next open
\* is 09:30 of the following Monday.
C25_WeekendClosedUntilMonday ==
    (selectedMarket # "crypto" /\ Evaluated /\ DayOf(HkNow) \in {0, 6}) =>
        /\ ~marketHours.isOpen
        /\ marketHours.nextClose = Null
        /\ marketHours.nextOpen =
              HkInstant(IF DayOf(HkNow) = 6 THEN 2 ELSE 1, morningStart)

\* C26: for an equity market on a Hong Kong weekday, before 09:30 the
\* session is closed with the next open at 09:30 that day, and in the
\* lunch gap [12:00, 13:00) it is closed with the next open at 13:00 that
\* day.
C26_ClosedBeforeOpenAndAtLunch ==
    (selectedMarket # "crypto" /\ Evaluated /\ HkWeekday) =>
        /\ HkTime < morningStart =>
              /\ ~marketHours.isOpen
              /\ marketHours.nextOpen = HkInstant(0, morningStart)
        /\ (HkTime >= morningEnd /\ HkTime < afternoonStart) =>
              /\ ~marketHours.isOpen
              /\ marketHours.nextOpen = HkInstant(0, afternoonStart)

\* C27: every computed session is well-formed, in every zone: a closed
\* session has no next close; an equity session has exactly one of next
\* open and next close, the next open when closed and the next close when
\* open; a crypto session is open and has neither.
C27_SessionWellFormed ==
    Evaluated =>
        /\ ~marketHours.isOpen => marketHours.nextClose = Null
        /\ selectedMarket # "crypto" =>
              /\ marketHours.isOpen =>
                    (marketHours.nextClose # Null
                        /\ marketHours.nextOpen = Null)
              /\ ~marketHours.isOpen =>
                    (marketHours.nextOpen # Null
                        /\ marketHours.nextClose = Null)
        /\ selectedMarket = "crypto" =>
              /\ marketHours.isOpen
              /\ marketHours.nextOpen = Null
              /\ marketHours.nextClose = Null

\* C27's case: an equity session computed in a browser outside UTC and
\* found closed; it names a next open and no next close.
C27_Witness ==
    /\ Evaluated
    /\ selectedMarket = "hkex"
    /\ tz # 0
    /\ ~marketHours.isOpen
    /\ marketHours.nextOpen # Null
    /\ marketHours.nextClose = Null

\* C28: for the crypto market the computed session is of a kind of its
\* own, none of morning, afternoon and closed, and has neither a next open
\* nor a next close, at every instant.
C28_CryptoKindAlwaysOpen ==
    (selectedMarket = "crypto" /\ Evaluated) =>
        /\ marketHours.sessionType \notin {"morning", "afternoon", "closed"}
        /\ marketHours.nextOpen = Null
        /\ marketHours.nextClose = Null

\* C29: the computed session depends on the market and the instant alone:
\* it is what getMarketHours gives for the same market and instant in
\* every other browser zone.
C29_SessionIndependentOfZone ==
    Evaluated =>
        \A z \in TzOffsets :
            marketHours = getMarketHours(selectedMarket, now, z)

\* A sequence of records is in non-decreasing collectedAt order.
OldestFirst(seq) ==
    \A i \in 1 .. Len(seq) : \A j \in i .. Len(seq) :
        seq[i].collectedAt <= seq[j].collectedAt

C31_OneRecordPerSuccessOnly ==
    [][\A a \in inflight, o \in Outcomes :
          CompleteAttempt(a, o) =>
             IF collectionStats'.successfulCollections
                   = collectionStats.successfulCollections + 1
             THEN /\ appended'[a.symbol] = Append(appended[a.symbol], Record(a))
                  /\ \A s \in Symbols \ {a.symbol} :
                        appended'[s] = appended[s]
             ELSE /\ appended' = appended
                  /\ localStorage' = localStorage]_vars

\* C32: a press of Download, whatever it meets and whether the export
\* succeeds or fails, leaves the statistics, the collector's state (the
\* collecting flag, the interval and its handle, the requests in flight,
\* the auto-start switch) and every ledger unchanged.
C32_ExportLeavesCollectorAlone ==
    [][(\E d \in DataSizes, f \in Faults, c \in FailPoints :
           ClickExport(d, f, c))
          => UNCHANGED <<collectionStats, isCollecting, intervalRef, timers,
                         inflight, autoStartEnabled, localStorage,
                         storedCount>>]_vars

\* C32's case: a collector that is running, with used statistics, has
\* exported a non-empty ledger with success.
C32_Witness ==
    /\ lastExport # NoExport
    /\ lastExport.ok
    /\ isCollecting
    /\ timers # {}
    /\ collectionStats = UsedStats
    /\ localStorage[lastExport.symbol] # <<>>

\* C33: the statistics change only in a step in which an attempt settles
\* or Reset is pressed, and a ledger that held records is empty only after
\* Clear; Start, Stop, the auto-start switch, the effects and the calendar
\* check never change a counter, the error list or a ledger.
C33_StatsAndLedgersChangeOnlyByTheirOwners ==
    [][/\ collectionStats' # collectionStats =>
             \/ \E a \in inflight, o \in Outcomes : CompleteAttempt(a, o)
             \/ ClickReset
       /\ (\E s \in Symbols :
              localStorage[s] # <<>> /\ localStorage'[s] = <<>>)
             => ClickClear
       /\ (ClickStart \/ ClickStop \/ ToggleAutoStart \/ FlushEffects
              \/ UpdateMarketHours \/ AdvanceClock)
             => UNCHANGED <<collectionStats, localStorage>>]_vars

\* C33's case: a collector with a stored record, a failure on its list and
\* its counters above 0 has just been stopped.
C33_Witness ==
    /\ lastOp = "stop"
    /\ collectionStats.successfulCollections > 0
    /\ collectionStats.collectionErrors # <<>>
    /\ \E s \in Symbols : localStorage[s] # <<>>

\* C34: for a market that is neither crypto nor an equity market the
\* component computes no session - marketHours stays as the mount left it
\* - and no collector runs.
C34_UnknownKindRejected ==
    (selectedMarket \notin {"crypto", "hkex", "stock"} /\ Evaluated) =>
        /\ marketHours = InitialMarketHours
        /\ ~isCollecting
        /\ timers = {}

\* What the calendar says of the current market at the clock's reading.
SessionOpen == getMarketHours(selectedMarket, now, tz).isOpen

\* C35: with fair effects and a fair market-hours interval, the auto-start
\* switch on and a symbol set, and as long as the model's stock of
\* attempts lasts: while the session is open the collector comes to run,
\* unless the session closes or the switch goes off first; while the
\* session is closed the collector comes to be idle with no interval armed
\* and its market hours showing closed, unless the session opens or the
\* switch goes off first; and from then on, as long as that lasts, an
\* attempt is launched only by a press of Start.
C35_AutoModeConverges ==
    /\ (autoStartEnabled /\ Truthy(selectedSymbol) /\ SessionOpen
           /\ nextId <= MaxAttempts)
          ~> (isCollecting
                \/ ~(autoStartEnabled /\ SessionOpen))
    /\ (autoStartEnabled /\ Truthy(selectedSymbol) /\ ~SessionOpen
           /\ nextId <= MaxAttempts)
          ~> ((~isCollecting /\ timers = {} /\ ~marketHours.isOpen)
                \/ ~(autoStartEnabled /\ ~SessionOpen)
                \/ nextId > MaxAttempts)
    /\ [][(autoStartEnabled /\ ~SessionOpen /\ ~marketHours.isOpen
             /\ ~isCollecting /\ timers = {} /\ ~(inflight' \subseteq inflight))
            => ClickStart]_vars

\* C35's case: the Hong Kong session has opened while the switch was on
\* and the collector idle, and the auto-start effect has started it.
C35_Witness ==
    /\ autoStartEnabled
    /\ selectedMarket = "hkex"
    /\ now > StartInstant
    /\ SessionOpen
    /\ isCollecting
    /\ lastOp = "autoStart"

\* C36: while the auto-start switch is off, the effects, the market-hours
\* interval and the passing of time - and so a session that opens or
\* closes - leave the collector as it is: the collecting flag, the
\* interval and its handle, and the requests in flight do not change.
C36_NoAutoWithoutSwitch ==
    [][(~autoStartEnabled
          /\ (FlushEffects \/ UpdateMarketHours \/ AdvanceClock))
         => UNCHANGED <<isCollecting, timers, intervalRef, inflight>>]_vars

\* C36's case: with the switch off and a Hong Kong symbol selected, the
\* session has opened and the market hours show it; the collector is idle
\* still.
C36_Witness ==
    /\ ~autoStartEnabled
    /\ selectedSymbol = "700.HK"
    /\ now > StartInstant
    /\ marketHours.isOpen
    /\ pending = {}
    /\ ~isCollecting
    /\ timers = {}

\* C37: the step in which an attempt settles, whatever its outcome,
\* changes no ledger but that of the attempt's symbol: every other
\* symbol's ledger keeps its records, their count and their order.
C37_AppendTouchesOneLedger ==
    [][\A a \in inflight, o \in Outcomes :
          CompleteAttempt(a, o) =>
             \A s \in Symbols \ {a.symbol} :
                /\ localStorage'[s] = localStorage[s]
                /\ getStoredDataCount(localStorage', s)
                      = getStoredDataCount(localStorage, s)]_vars

\* C37's case: each of the two symbols has had a response stored; each
\* ledger holds its own record.
C37_Witness ==
    /\ localStorage["700.HK"] # <<>>
    /\ localStorage["BTCUSDT"] # <<>>
    /\ localStorage["700.HK"] # localStorage["BTCUSDT"]
    /\ Len(appended["700.HK"]) = 1
    /\ Len(appended["BTCUSDT"]) = 1

\* C38: the update of a successful attempt leaves failedCollections and
\* collectionErrors as they were, whatever the length of the list.
C38_SuccessKeepsErrors ==
    [][AttemptSucceeds =>
          /\ collectionStats'.failedCollections
                = collectionStats.failedCollections
          /\ collectionStats'.collectionErrors
                = collectionStats.collectionErrors]_vars

\* C39: lastCollectionTime is null exactly when successfulCollections is
\* 0, whatever the total, in every state reached by attempts and resets;
\* and the update of a failed attempt leaves lastCollectionTime as it was.
C39_LastTimeOnlyFromSuccess ==
    /\ []((collectionStats.lastCollectionTime = Null)
            <=> (collectionStats.successfulCollections = 0))
    /\ [][\A m \in {"fetch", "storage"} :
            AttemptFails(m) =>
               collectionStats'.lastCollectionTime
                  = collectionStats.lastCollectionTime]_vars

\* C39's case: attempts have failed and none has succeeded; the counters
\* show the failures and lastCollectionTime is null.
C39_Witness ==
    /\ collectionStats.totalCollections > 1
    /\ collectionStats.successfulCollections = 0
    /\ collectionStats.lastCollectionTime = Null
    /\ nextId > 1

\* C40: for the Hong Kong equity market, a closed session names a next open that is
\* later than the clock's reading, at which the calendar is open, with
\* no open instant before it; an open session names a next close that is
\* later than the clock's reading, at which the calendar is closed, with
\* every instant before it open.
C40_AnnouncedTransitionsReal ==
    (selectedMarket = "hkex" /\ Evaluated) =>
        LET open(u) == getMarketHours(selectedMarket, u, tz).isOpen
        IN  IF ~marketHours.isOpen
            THEN /\ marketHours.nextOpen > now
                 /\ open(marketHours.nextOpen)
                 /\ \A u \in (now + 1) .. (marketHours.nextOpen - 1) :
                       ~open(u)
            ELSE /\ marketHours.nextClose > now
                 /\ ~open(marketHours.nextClose)
                 /\ \A u \in now .. (marketHours.nextClose - 1) : open(u)

=============================================================================
